---- MODULE Spec2Model ----
(***************************************************************************)
(* Model of ConfigParameters (converters/vasp/python/inpconf.py): the      *)
(* config-file parser that reads [Shell N] / [Group N] sections and        *)
(* reconciles them in groups_shells_consistency().                         *)
(*                                                                         *)
(* Strings are sequences of one-character strings, dictionaries are        *)
(* functions whose domain is a set of keys, lists are sequences.           *)
(*                                                                         *)
(* Line 396 of the source lacks the closing parenthesis of the raise       *)
(* statement; the model reads the statement as ending on that line.        *)
(***************************************************************************)
EXTENDS Integers, Sequences, FiniteSets, TLC

(***************************************************************************)
(* Bounds of the documents explored.                                       *)
(***************************************************************************)
\* largest shell index a section name or a group reference carries
MaxIndex == 3
\* largest number of shell references in the [Group] sections of a document
MaxRefs == 2

(***************************************************************************)
(* Strings and dictionaries.                                               *)
(***************************************************************************)
DigitChars == <<"0", "1", "2", "3", "4", "5", "6", "7", "8", "9">>

IsDigit(c) == \E i \in 1..10 : DigitChars[i] = c

DigitVal(c) == (CHOOSE i \in 1..10 : DigitChars[i] = c) - 1

AllDigits(s) == \A i \in 1..Len(s) : IsDigit(s[i])

RECURSIVE DigitsValue(_)
DigitsValue(s) ==
  IF s = <<>> THEN 0
  ELSE 10 * DigitsValue(SubSeq(s, 1, Len(s) - 1)) + DigitVal(s[Len(s)])

\* int(s) of Python for a string without surrounding blanks: an optional
\* sign and at least one digit, anything else raises ValueError.
int(s) ==
  LET signed == s # <<>> /\ s[1] \in {"-", "+"}
      body == IF signed THEN Tail(s) ELSE s
  IN IF body = <<>> \/ ~AllDigits(body)
     THEN [ok |-> FALSE, val |-> 0]
     ELSE [ok |-> TRUE,
           val |-> IF signed /\ s[1] = "-" THEN 0 - DigitsValue(body)
                   ELSE DigitsValue(body)]

\* float(s), for the integer-valued strings the documents carry.
float(s) == int(s)

\* s.split(): the maximal runs of non-blank characters.
RECURSIVE split(_)
split(s) ==
  IF s = <<>> THEN <<>>
  ELSE IF s[1] = " " THEN split(Tail(s))
  ELSE LET n == IF \E i \in 1..Len(s) : s[i] = " "
                THEN (CHOOSE i \in 1..Len(s) :
                        s[i] = " " /\ \A j \in 1..(i - 1) : s[j] # " ") - 1
                ELSE Len(s)
       IN <<SubSeq(s, 1, n)>> \o split(SubSeq(s, n + 1, Len(s)))

\* map(int, tokens); ok is FALSE when some int() raises ValueError.
MapInt(tokens) ==
  [ok |-> \A i \in 1..Len(tokens) : int(tokens[i]).ok,
   val |-> [i \in 1..Len(tokens) |-> int(tokens[i]).val]]

EmptyDict == [k \in {} |-> 0]

\* d.update(p)
Update(d, p) ==
  [k \in (DOMAIN d) \cup (DOMAIN p) |-> IF k \in DOMAIN p THEN p[k] ELSE d[k]]

\* d after d.pop(key), for a key d has
Pop(d, key) == [k \in (DOMAIN d) \ {key} |-> d[k]]

Range(s) == {s[i] : i \in 1..Len(s)}

\* The orders in which the keys of a dictionary may be iterated.
Orders(S) ==
  {o \in [1..Cardinality(S) -> S] : \A i, j \in 1..Cardinality(S) : i # j => o[i] # o[j]}

\* One order of the keys of a parameter set, for the calls of
\* parse_parameter_set in which no parameter can raise.
SortedParams(S) == CHOOSE o \in Orders(S) : TRUE

\* sorted(list(S)) for a set of integers
RECURSIVE SortedSeq(_)
SortedSeq(S) ==
  IF S = {} THEN <<>>
  ELSE LET m == CHOOSE x \in S : \A y \in S : x <= y
       IN <<m>> \o SortedSeq(S \ {m})

\* range(n)
range(n) == [i \in 1..n |-> i - 1]

\* list.sort() of a list of integers
RECURSIVE SortInts(_)
SortInts(l) ==
  IF l = <<>> THEN <<>>
  ELSE LET m == CHOOSE x \in Range(l) : \A y \in Range(l) : x <= y
           i == CHOOSE k \in 1..Len(l) : l[k] = m
       IN <<m>> \o SortInts(SubSeq(l, 1, i - 1) \o SubSeq(l, i + 1, Len(l)))

(***************************************************************************)
(* Errors and warnings.  An error is the exception that leaves             *)
(* parse_input(); its kind is the rule of the error taxonomy the raise     *)
(* site stands for, or the Python exception where no rule corresponds.     *)
(***************************************************************************)
Error(kind, par, group, index, keys) ==
  [kind |-> kind, par |-> par, group |-> group, index |-> index, keys |-> keys]

NoError == Error("none", "", 0 - 1, 0 - 1, {})

Fail(kind) == Error(kind, "", 0 - 1, 0 - 1, {})

\* issue_warning(message): the message as (text, parameter, shell index)
issue_warning(text, par, index) == [text |-> text, par |-> par, index |-> index]

(***************************************************************************)
(* Special parsers.                                                        *)
(***************************************************************************)
\* length of the run of digits that starts at position i of s
RECURSIVE DigitRun(_, _)
DigitRun(s, i) ==
  IF i <= Len(s) /\ IsDigit(s[i]) THEN 1 + DigitRun(s, i + 1) ELSE 0

\* re.match('([0-9]+)\.\.([0-9]+)', s): the two groups, when s starts so
RangeGroups(s, n1, n2) ==
  IF /\ n1 >= 1
     /\ Len(s) >= n1 + 2
     /\ s[n1 + 1] = "."
     /\ s[n1 + 2] = "."
     /\ n2 >= 1
  THEN [ok |-> TRUE,
        i1 |-> DigitsValue(SubSeq(s, 1, n1)),
        i2 |-> DigitsValue(SubSeq(s, n1 + 3, n1 + 2 + n2))]
  ELSE [ok |-> FALSE, i1 |-> 0, i2 |-> 0]

RangeMatch(s) == RangeGroups(s, DigitRun(s, 1), DigitRun(s, DigitRun(s, 1) + 3))

\* lines 111-114: the assertion on the lowest index, and the result
CheckedIonList(ion_list) ==
  IF ~(\A i \in 1..Len(ion_list) : ion_list[i] >= 0)
  THEN [err |-> Fail("IndexRangeError"), val |-> <<>>]
  ELSE [err |-> NoError, val |-> ion_list]

\* lines 95-98: the range i1..i2
IonRange(i1, i2) ==
  IF ~(i1 <= i2) THEN [err |-> Fail("RangeOrderError"), val |-> <<>>]
  ELSE CheckedIonList([i \in 1..(i2 - i1 + 1) |-> i1 - 2 + i])

\* the indices left one-based
MinusNone(l) == l

\* np.array(l) - 1
MinusOne(l) == [i \in 1..Len(l) |-> l[i] - 1]

\* lines 101-109: the list of indices; l_tmp is map(int, par_str.split())
IonIndices(l_tmp) ==
  IF ~l_tmp.ok THEN [err |-> Fail("NotImplementedError"), val |-> <<>>]
  ELSE CheckedIonList(MinusOne(SortInts(l_tmp.val)))

IonListOf(match, par_str) ==
  IF match.ok THEN IonRange(match.i1, match.i2)
  ELSE IonIndices(MapInt(split(par_str)))

parse_string_ion_list(par_str) == IonListOf(RangeMatch(par_str), par_str)

\* str.lower() of one character, for the letters the documents use
lower(c) ==
  CASE c = "T" -> "t"
    [] c = "F" -> "f"
    [] c = "X" -> "x"
    [] OTHER -> c

parse_string_logical(par_str) ==
  IF par_str = <<>>
  THEN [err |-> Fail("IndexError"), val |-> FALSE]
  ELSE IF lower(par_str[1]) \notin {"t", "f"}
  THEN [err |-> Fail("InvalidBooleanError"), val |-> FALSE]
  ELSE [err |-> NoError, val |-> lower(par_str[1]) = "t"]

\* lambda s: map(int, s.split())
\* the value a conversion returns, or the ValueError it raises
Converted(v, default) ==
  IF v.ok THEN [err |-> NoError, val |-> v.val]
  ELSE [err |-> Fail("ValueError"), val |-> default]

parse_shells_list(par_str) == Converted(MapInt(split(par_str)), <<>>)

parse_int(par_str) == Converted(int(par_str), 0)

parse_float(par_str) == Converted(float(par_str), 0)

(***************************************************************************)
(* The four parameter sets: conf-file keyword -> (internal name, parser).  *)
(* The documents explored carry no rtransform / ctransform, so the matrix  *)
(* parser is never applied.                                                *)
(***************************************************************************)
sh_required == {"ions", "lshell"}

sh_optional == {"rtransform", "ctransform"}

gr_required == {"shells", "emin", "emax"}

gr_optional == {"normalize", "normion"}

\* param_set[par][0]
ParKey(par) ==
  CASE par = "ions" -> "ion_list"
    [] par \in sh_optional -> "tmatrix"
    [] OTHER -> par

\* param_set[par][1](par_str)
ParFun(par, par_str) ==
  CASE par = "ions" -> parse_string_ion_list(par_str)
    [] par = "lshell" -> parse_int(par_str)
    [] par = "shells" -> parse_shells_list(par_str)
    [] par \in {"emin", "emax"} -> parse_float(par_str)
    [] par \in gr_optional -> parse_string_logical(par_str)

\* parse_parameter_set(section, param_set, exception); options is the
\* section of the document and order the order of param_set.keys()
RECURSIVE ParseLoop(_, _, _, _)
\* lines 190-192, res being parse_fun(par_str)
ParsePar(options, order, exception, parsed, res) ==
  IF res.err # NoError
  THEN [err |-> res.err, parsed |-> parsed]
  ELSE ParseLoop(options, Tail(order), exception,
                 Update(parsed, [k \in {ParKey(Head(order))} |-> res.val]))

ParseLoop(options, order, exception, parsed) ==
  IF order = <<>> THEN [err |-> NoError, parsed |-> parsed]
  ELSE IF Head(order) \notin DOMAIN options
  THEN IF exception
       THEN [err |-> Error("MissingRequiredParameterError", Head(order), 0 - 1, 0 - 1, {}),
             parsed |-> parsed]
       ELSE ParseLoop(options, Tail(order), exception, parsed)
  ELSE ParsePar(options, order, exception, parsed,
                ParFun(Head(order), options[Head(order)]))

parse_parameter_set(options, order, exception) ==
  ParseLoop(options, order, exception, EmptyDict)

(***************************************************************************)
(* The documents explored.  A document maps the names of its [Shell ...]   *)
(* and [Group ...] sections (the text after the keyword and the blanks) to *)
(* their options (keyword -> raw string).                                  *)
(***************************************************************************)
ToStr(n) == <<DigitChars[n + 1]>>

\* the integers of l written out and separated by blanks
RECURSIVE Join(_)
Join(l) ==
  IF l = <<>> THEN <<>>
  ELSE IF Len(l) = 1 THEN ToStr(l[1])
  ELSE ToStr(l[1]) \o <<" ">> \o Join(Tail(l))

\* raw strings of a [Shell] section
ShellRaw(par) ==
  CASE par = "ions" -> <<"1", ".", ".", "2">>
    [] par = "lshell" -> <<"2">>
    [] par = "shells" -> <<"1">>
    [] par = "emin" -> <<"-", "7">>
    [] par = "emax" -> <<"7">>
    [] par = "normalize" -> <<"T", "r", "u", "e">>
    [] par = "normion" -> <<"f">>

\* raw strings of a [Group] section that lists the shells refs
GroupRaw(par, refs) ==
  CASE par = "shells" -> Join(refs)
    [] par = "emin" -> <<"-", "5">>
    [] par = "emax" -> <<"5">>
    [] par = "normalize" -> <<"F">>
    [] par = "normion" -> <<"t">>

ShellOptions(pars) == [par \in pars |-> ShellRaw(par)]

GroupOptions(pars, refs) == [par \in pars |-> GroupRaw(par, refs)]

ShellNames == {ToStr(d) : d \in 1..MaxIndex} \cup {<<"0", "1">>}

GroupNames == {ToStr(1), ToStr(2)}

RefLists == UNION {[1..k -> 1..MaxIndex] : k \in 0..MaxRefs}

RECURSIVE SumLen(_, _)
SumLen(f, D) ==
  IF D = {} THEN 0
  ELSE LET d == CHOOSE x \in D : TRUE IN Len(f[d]) + SumLen(f, D \ {d})

\* shell sections that are plain or carry every group parameter as well
GeneralShells ==
  UNION {[D -> {ShellOptions(sh_required),
                ShellOptions(sh_required \cup gr_required \cup gr_optional)}] :
         D \in SUBSET ShellNames}

GeneralGroups ==
  {[g \in DOMAIN f |-> GroupOptions(gr_required, f[g])] :
     f \in {h \in UNION {[D -> RefLists] : D \in SUBSET GroupNames} :
              SumLen(h, DOMAIN h) <= MaxRefs}}

GeneralDocs == [shell : GeneralShells, group : GeneralGroups]

\* one shell with any choice of group parameters, and no group
ImplicitDocs ==
  {[shell |-> [n \in {name} |-> ShellOptions(sh_required \cup pars)],
    group |-> EmptyDict] :
     name \in ShellNames, pars \in SUBSET (gr_required \cup gr_optional)}

\* malformed section names, missing required parameters, optional group
\* parameters, two spellings of one group index
EdgeDocs ==
  {[shell |-> [n \in {<<>>} |-> ShellOptions(sh_required)], group |-> EmptyDict],
   [shell |-> [n \in {<<"x">>} |-> ShellOptions(sh_required)], group |-> EmptyDict],
   [shell |-> [n \in {ToStr(1)} |-> ShellOptions({"ions"})], group |-> EmptyDict],
   [shell |-> [n \in {ToStr(1)} |-> ShellOptions(sh_required \cup gr_optional)],
    group |-> [n \in {ToStr(1)} |-> GroupOptions(gr_required \cup gr_optional, <<1>>)]],
   [shell |-> [n \in {ToStr(1)} |-> ShellOptions(sh_required)],
    group |-> [n \in {ToStr(1)} |-> GroupOptions({"shells", "emin"}, <<1>>)]],
   [shell |-> [n \in {ToStr(1)} |-> ShellOptions(sh_required)],
    group |-> [n \in {<<>>} |-> GroupOptions(gr_required, <<1>>)]],
   [shell |-> [n \in {ToStr(1)} |-> ShellOptions(sh_required)],
    group |-> [n \in {ToStr(1), <<"0", "1">>} |->
                 GroupOptions(gr_required, IF n = ToStr(1) THEN <<1>> ELSE <<>>)]]}

Docs == GeneralDocs \cup ImplicitDocs \cup EdgeDocs

(***************************************************************************)
(* State of a ConfigParameters object and of its parse_input() call.       *)
(* Attributes that parse_input() has not assigned yet read 0 or empty.     *)
(***************************************************************************)
\* engine lists the states the consistency engine has passed through.
VARIABLES cp, pc, nshells, sh_sections, shells, ngroups, groups, err, warnings, engine

vars == <<cp, pc, nshells, sh_sections, shells, ngroups, groups, err, warnings, engine>>

Init ==
  /\ cp \in Docs
  /\ pc = "start"
  /\ nshells = 0
  /\ sh_sections = EmptyDict
  /\ shells = <<>>
  /\ ngroups = 0
  /\ groups = <<>>
  /\ err = NoError
  /\ warnings = <<>>
  /\ engine = <<>>

\* int(patt2.match(section).groups()[0]) for the pattern '<keyword> +([0-9]*)$'
get_ind(name) ==
  IF AllDigits(name) /\ name # <<>>
  THEN [ok |-> TRUE, val |-> DigitsValue(name)]
  ELSE [ok |-> FALSE, val |-> 0]

(***************************************************************************)
(* parse_shells()                                                          *)
(***************************************************************************)
\* one shell of the loop over the sorted indices
\* record.update(parsed) for the result of parse_parameter_set, unless an
\* exception is under way in rec or raised in p
UpdateParsed(rec, p) ==
  IF rec.err # NoError THEN rec
  ELSE IF p.err # NoError THEN [rec EXCEPT !.err = p.err]
  ELSE [rec EXCEPT !.val = Update(@, p.parsed)]

\* lines 247-280: one shell of the loop over the sorted indices
ParseShell(ind, options, req_order) ==
  UpdateParsed(
    UpdateParsed(
      UpdateParsed(
        UpdateParsed([err |-> NoError, val |-> [k \in {"user_index"} |-> ind]],
                     parse_parameter_set(options, req_order, TRUE)),
        parse_parameter_set(options, SortedParams(sh_optional), FALSE)),
      parse_parameter_set(options, SortedParams(gr_required), FALSE)),
    parse_parameter_set(options, SortedParams(gr_optional), FALSE))

RECURSIVE ParseShellsLoop(_, _, _, _)
\* line 282
AppendShell(sh_inds, sections, req_order, acc, r) ==
  IF r.err # NoError THEN [err |-> r.err, shells |-> acc]
  ELSE ParseShellsLoop(Tail(sh_inds), sections, req_order, Append(acc, r.val))

ParseShellsLoop(sh_inds, sections, req_order, acc) ==
  IF sh_inds = <<>> THEN [err |-> NoError, shells |-> acc]
  ELSE AppendShell(sh_inds, sections, req_order, acc,
                   ParseShell(Head(sh_inds), cp.shell[sections[Head(sh_inds)]], req_order))

\* the indices of the [Shell] sections of the document
ShellIndices == {get_ind(s).val : s \in DOMAIN cp.shell}

\* line 231: the dictionaries {ind: sec} that the sections can give; of
\* several sections with one index, the last one in the file is kept
RECURSIVE SectionMaps(_)
SectionMaps(inds) ==
  IF inds = {} THEN {EmptyDict}
  ELSE {Update(f, [k \in {CHOOSE i \in inds : TRUE} |-> sec]) :
          f \in SectionMaps(inds \ {CHOOSE i \in inds : TRUE}),
          sec \in {n \in DOMAIN cp.shell : get_ind(n).val = CHOOSE i \in inds : TRUE}}

\* lines 239-242
NonUniformWarning(sh_inds) ==
  IF sh_inds # [i \in 1..Len(sh_inds) |-> i]
  THEN <<issue_warning("Shell indices are not uniform", "", 0 - 1)>>
  ELSE <<>>

\* the index of every section, one entry per section, sorted
AllShellIndices ==
  SortInts([i \in 1..Cardinality(DOMAIN cp.shell) |->
              get_ind(SortedParams(DOMAIN cp.shell)[i]).val])

\* parse_shells without the assertion that the indices are distinct
parse_shells_unchecked ==
  /\ pc = "start"
  /\ nshells' = Cardinality(DOMAIN cp.shell)
  /\ IF DOMAIN cp.shell = {}
     THEN /\ err' = Fail("NoShellsError")
          /\ pc' = "failed"
          /\ UNCHANGED <<sh_sections, shells, warnings>>
     ELSE IF \E s \in DOMAIN cp.shell : ~get_ind(s).ok
     THEN /\ err' = Fail("SectionIndexError")
          /\ pc' = "failed"
          /\ UNCHANGED <<sh_sections, shells, warnings>>
     ELSE \E sections \in SectionMaps(ShellIndices), req_order \in Orders(sh_required) :
            /\ sh_sections' = sections
            /\ \E r \in {ParseShellsLoop(AllShellIndices, sections, req_order, <<>>)} :
                 /\ warnings' = warnings \o NonUniformWarning(AllShellIndices)
                 /\ shells' = r.shells
                 /\ err' = r.err
                 /\ pc' = IF r.err = NoError THEN "shells_parsed" ELSE "failed"
  /\ UNCHANGED <<cp, ngroups, groups, engine>>

parse_shells ==
  /\ pc = "start"
  /\ nshells' = Cardinality(DOMAIN cp.shell)
  /\ IF DOMAIN cp.shell = {}
     THEN /\ err' = Fail("NoShellsError")
          /\ pc' = "failed"
          /\ UNCHANGED <<sh_sections, shells, warnings>>
     ELSE IF \E s \in DOMAIN cp.shell : ~get_ind(s).ok
     THEN /\ err' = Fail("SectionIndexError")
          /\ pc' = "failed"
          /\ UNCHANGED <<sh_sections, shells, warnings>>
     ELSE \E sections \in SectionMaps(ShellIndices), req_order \in Orders(sh_required) :
            /\ sh_sections' = sections
            /\ IF Cardinality(ShellIndices) # Cardinality(DOMAIN cp.shell)
               THEN /\ err' = Fail("DuplicateShellIndexError")
                    /\ pc' = "failed"
                    /\ UNCHANGED <<shells, warnings>>
               ELSE \E r \in {ParseShellsLoop(SortedSeq(ShellIndices), sections,
                                               req_order, <<>>)} :
                      /\ warnings' = warnings \o NonUniformWarning(SortedSeq(ShellIndices))
                      /\ shells' = r.shells
                      /\ err' = r.err
                      /\ pc' = IF r.err = NoError THEN "shells_parsed" ELSE "failed"
  /\ UNCHANGED <<cp, ngroups, groups, engine>>

(***************************************************************************)
(* parse_groups()                                                          *)
(***************************************************************************)
\* list.sort(key=lambda g: g['index']), which is stable
RECURSIVE InsertByIndex(_, _)
InsertByIndex(sorted, g) ==
  IF sorted = <<>> THEN <<g>>
  ELSE IF sorted[Len(sorted)]["index"] <= g["index"] THEN Append(sorted, g)
  ELSE Append(InsertByIndex(SubSeq(sorted, 1, Len(sorted) - 1), g), sorted[Len(sorted)])

\* the groups left in the order in which the sections were read
SortByIndexSkipped(l) == l

RECURSIVE SortByIndex(_)
SortByIndex(l) ==
  IF l = <<>> THEN <<>>
  ELSE InsertByIndex(SortByIndex(SubSeq(l, 1, Len(l) - 1)), l[Len(l)])

\* lines 304-326: one group of the loop over the sections
ParseGroup(section, req_order) ==
  IF ~get_ind(section).ok
  THEN [err |-> Fail("SectionIndexError"), val |-> EmptyDict]
  ELSE UpdateParsed(
         UpdateParsed([err |-> NoError, val |-> [k \in {"index"} |-> get_ind(section).val]],
                      parse_parameter_set(cp.group[section], req_order, TRUE)),
         parse_parameter_set(cp.group[section], SortedParams(gr_optional), FALSE))

RECURSIVE ParseGroupsLoop(_, _, _)
\* line 328
AppendGroup(sec_groups, req_order, acc, r) ==
  IF r.err # NoError THEN [err |-> r.err, groups |-> acc]
  ELSE ParseGroupsLoop(Tail(sec_groups), req_order, Append(acc, r.val))

ParseGroupsLoop(sec_groups, req_order, acc) ==
  IF sec_groups = <<>> THEN [err |-> NoError, groups |-> acc]
  ELSE AppendGroup(sec_groups, req_order, acc, ParseGroup(Head(sec_groups), req_order))

parse_groups ==
  /\ pc = "shells_parsed"
  /\ \E sec_groups \in Orders(DOMAIN cp.group), req_order \in Orders(gr_required) :
       \E r \in {ParseGroupsLoop(sec_groups, req_order, <<>>)} :
          /\ ngroups' = Len(sec_groups)
          /\ err' = r.err
          /\ groups' = IF r.err = NoError /\ Len(sec_groups) > 0
                       THEN SortByIndex(r.groups) ELSE r.groups
          /\ pc' = IF r.err = NoError THEN "groups_parsed" ELSE "failed"
          /\ engine' = IF r.err = NoError THEN <<"Built">> ELSE engine
  /\ UNCHANGED <<cp, nshells, sh_sections, shells, warnings>>

(***************************************************************************)
(* groups_shells_consistency()                                             *)
(*                                                                         *)
(* The run is a record st: the shells and groups of the object, the local  *)
(* list sh_inds, the warnings issued, the engine states passed and the     *)
(* exception raised, if any.                                               *)
(***************************************************************************)
Reject(st, e) == [st EXCEPT !.err = e, !.engine = Append(@, "Rejected")]

\* value of the local variable ind before line 394 has assigned it
Unbound == "unbound"

\* lines 357-366: move the required group parameters of shells[0] into
\* groups[0]; a missing one raises KeyError, re-raised with all of them named
\* value = shells[s].pop(key); groups[0][key] = value (s counts from 1)
MoveKey(st, s, key) ==
  [st EXCEPT !.shells[s] = Pop(@, key),
             !.groups[1] = Update(@, [k \in {key} |-> st.shells[s][key]])]

RECURSIVE MoveRequired(_, _)
MoveRequired(st, order) ==
  IF order = <<>> THEN st
  ELSE IF ParKey(Head(order)) \notin DOMAIN st.shells[1]
  THEN Reject(st, Error("IncompleteImplicitGroupError", "", 0 - 1, 0 - 1, gr_required))
  ELSE MoveRequired(MoveKey(st, 1, ParKey(Head(order))), Tail(order))

\* lines 369-375: the same for the optional parameters, from shells[ind];
\* reading ind while it is unbound raises UnboundLocalError, which the
\* except KeyError clause does not catch
RECURSIVE MoveOptional(_, _, _)
MoveOptional(st, order, ind) ==
  IF st.err # NoError \/ order = <<>> THEN st
  ELSE IF ind = Unbound THEN Reject(st, Fail("UnboundLocalError"))
  ELSE IF ParKey(Head(order)) \notin DOMAIN st.shells[ind + 1]
  THEN MoveOptional(st, Tail(order), ind)
  ELSE MoveOptional(MoveKey(st, ind + 1, ParKey(Head(order))), Tail(order), ind)

\* line 377: self.groups is a list and has no update()
AddShellIndex(st) ==
  IF st.err # NoError THEN st ELSE Reject(st, Fail("AttributeError"))

\* line 354
AppendEmptyGroup(st) == [st EXCEPT !.groups = Append(@, EmptyDict)]

\* Defaulting with the empty group appended before the check of nshells
DefaultingAppendsFirst(st, n_shells, n_groups, req_order, opt_order) ==
  IF n_groups # 0 THEN [st EXCEPT !.engine = Append(@, "Defaulted")]
  ELSE IF n_shells # 1 THEN Reject(AppendEmptyGroup(st), Fail("AmbiguousGroupingError"))
  ELSE AddShellIndex(
         MoveOptional(MoveRequired(AppendEmptyGroup(st), req_order), opt_order, Unbound))

\* lines 349-377: the special case of no group
Defaulting(st, n_shells, n_groups, req_order, opt_order) ==
  IF n_groups # 0 THEN [st EXCEPT !.engine = Append(@, "Defaulted")]
  ELSE IF n_shells # 1 THEN Reject(st, Fail("AmbiguousGroupingError"))
  ELSE AddShellIndex(
         MoveOptional(MoveRequired(AppendEmptyGroup(st), req_order), opt_order, Unbound))

\* lines 383-387
find_shell_by_user_index(shs, uindex) ==
  IF \E i \in 1..Len(shs) : shs[i]["user_index"] = uindex
  THEN [found |-> TRUE,
        shell |-> shs[CHOOSE i \in 1..Len(shs) :
                        /\ shs[i]["user_index"] = uindex
                        /\ \A j \in 1..(i - 1) : shs[j]["user_index"] # uindex]]
  ELSE [found |-> FALSE, shell |-> EmptyDict]

\* lines 394-421, for the dictionary found
UnpackShell(st, found) ==
  IF Cardinality(DOMAIN found) # 2
  THEN Reject(st, Fail("ValueError"))
  ELSE Reject([st EXCEPT !.sh_inds = Append(@, CHOOSE k \in DOMAIN found : TRUE)],
              Fail("AttributeError"))

\* lines 393-421 for one reference.  Line 394 unpacks the dictionary that
\* find_shell_by_user_index returns into (ind, shell): that iterates its
\* keys and raises ValueError unless there are exactly two of them; with
\* two, shell is a key, a string, and shell.pop at line 405 raises
\* AttributeError, after line 397 has appended the other key to sh_inds.
ResolveReference(st, group, user_ind) ==
  IF ~find_shell_by_user_index(st.shells, user_ind).found
  THEN Reject(st, Error("UnknownShellReferenceError", "", group["index"], user_ind, {}))
  ELSE UnpackShell(st, find_shell_by_user_index(st.shells, user_ind).shell)

\* lines 390-421: the loops over the groups and over their shells
RECURSIVE Resolution(_, _, _)
Resolution(st, g, r) ==
  IF st.err # NoError THEN st
  ELSE IF g > Len(st.groups) THEN [st EXCEPT !.engine = Append(@, "Validated")]
  ELSE IF r > Len(st.groups[g]["shells"]) THEN Resolution(st, g + 1, 1)
  ELSE Resolution(ResolveReference(st, st.groups[g], st.groups[g]["shells"][r]), g, r + 1)

\* lines 423-427; the elements of sh_inds are keys of a shell, so the
\* sorted list equals range(nshells) only if both are empty
Coverage(st, n_shells) ==
  IF st.err # NoError THEN st
  ELSE IF st.sh_inds = <<>> /\ range(n_shells) = <<>>
  THEN [st EXCEPT !.engine = Append(@, "Final")]
  ELSE Reject(st, Fail("UnreferencedShellError"))

Consistency(shs, grs, n_shells, n_groups, req_order, opt_order) ==
  Coverage(
    Resolution(
      Defaulting([shells |-> shs, groups |-> grs, sh_inds |-> <<>>, warnings |-> <<>>,
                  engine |-> <<"Built">>, err |-> NoError],
                 n_shells, n_groups, req_order, opt_order),
      1, 1),
    n_shells)

groups_shells_consistency ==
  /\ pc = "groups_parsed"
  /\ \E req_order \in Orders(gr_required), opt_order \in Orders(gr_optional) :
       \E st \in {Consistency(shells, groups, nshells, ngroups, req_order, opt_order)} :
          /\ shells' = st.shells
          /\ groups' = st.groups
          /\ warnings' = warnings \o st.warnings
          /\ engine' = st.engine
          /\ err' = st.err
          /\ pc' = IF st.err = NoError THEN "done" ELSE "failed"
  /\ UNCHANGED <<cp, nshells, sh_sections, ngroups>>

\* parse_input(): the three calls in sequence; an exception ends it
Next == parse_shells \/ parse_groups \/ groups_shells_consistency

Spec == Init /\ [][Next]_vars

(***************************************************************************)
(* parse_string_ion_list() over its inputs: documents with one [Shell 1]   *)
(* section whose 'ions' option runs over ranges 'a..b', over lists of      *)
(* integers separated by blanks, and over a few strings of other forms.    *)
(***************************************************************************)
MaxIon == 5

MaxIons == 3

RangeStr(a, b) == ToStr(a) \o <<".", ".">> \o ToStr(b)

IonLists == UNION {[1..k -> 0..MaxIon] : k \in 0..MaxIons}

IonStrings ==
  {RangeStr(a, b) : a, b \in 0..MaxIon}
    \cup {Join(l) : l \in IonLists}
    \cup {<<"F", "e">>, <<"-", "1", " ", "2">>, <<"2", " ", " ", "1">>,
          <<"1", "0", ".", ".", "1", "2">>, <<"1", "2", " ", "1", "0">>,
          <<"3", ".", ".", "5", " ", "7">>}

IonOptions(ions) == [par \in sh_required |-> IF par = "ions" THEN ions ELSE ShellRaw(par)]

IonDocs ==
  {[shell |-> [n \in {ToStr(1)} |-> IonOptions(ions)], group |-> EmptyDict] :
     ions \in IonStrings}

IonInit ==
  /\ cp \in IonDocs
  /\ pc = "start"
  /\ nshells = 0
  /\ sh_sections = EmptyDict
  /\ shells = <<>>
  /\ ngroups = 0
  /\ groups = <<>>
  /\ err = NoError
  /\ warnings = <<>>
  /\ engine = <<>>

IonSpec == IonInit /\ [][Next]_vars

(***************************************************************************)
(* Properties.                                                             *)
(***************************************************************************)
\* groups_shells_consistency() has run to its end or to an exception
EngineRan == Len(engine) >= 2

Final == pc = "done"

Rejected == pc = "failed" /\ EngineRan

GroupPars == gr_required \cup gr_optional

\* the user_index values of the shells parsed
UserIndices == {shells[s]["user_index"] : s \in 1..Len(shells)}

\* the shell indices the explicit group g lists
Referenced(g) == Range(groups[g]["shells"])

ExplicitGroups == EngineRan /\ ngroups >= 1

AllReferenced == UNION {Referenced(g) : g \in 1..Len(groups)}

\* the document has no [Group] section and exactly one [Shell] section
SingleShellDocument ==
  /\ DOMAIN cp.group = {}
  /\ Cardinality(DOMAIN cp.shell) = 1

\* the options of the only [Shell] section
TheShellOptions == cp.shell[CHOOSE n \in DOMAIN cp.shell : TRUE]

\* No run of parse_input() ends in Final: every run of the consistency
\* engine ends with an exception.
EngineNeverFinal == ~Final

\* C2: when a group lists an index that no shell has, the engine fails with
\* UnknownShellReferenceError naming that group and that index.
C2_DanglingReferenceReported ==
  (ExplicitGroups /\ ~(AllReferenced \subseteq UserIndices)) =>
    /\ Rejected
    /\ err.kind = "UnknownShellReferenceError"
    /\ \E g \in 1..Len(groups) :
         /\ groups[g]["index"] = err.group
         /\ err.index \in Referenced(g) \ UserIndices

\* C3: when every reference resolves and some shell is referenced by no
\* group, the engine fails with UnreferencedShellError listing exactly the
\* orphaned shells.
C3_OrphanedShellsReported ==
  (ExplicitGroups /\ AllReferenced \subseteq UserIndices /\ UserIndices # AllReferenced) =>
    /\ Rejected
    /\ err.kind = "UnreferencedShellError"
    /\ (IF err.index = 0 - 1 THEN {} ELSE {err.index}) = UserIndices \ AllReferenced

\* C4: a document with no group and one shell that carries every required
\* group parameter yields Final with exactly one group, which lists that
\* shell's user_index alone.
C4_ImplicitGroupSynthesized ==
  (EngineRan /\ SingleShellDocument /\ gr_required \subseteq DOMAIN TheShellOptions) =>
    /\ Final
    /\ Len(groups) = 1
    /\ groups[1]["shells"] = <<shells[1]["user_index"]>>

\* C5: single-shell defaulting moves every group parameter the shell section
\* carries, with its value, from the shell into the synthesized group, and
\* completes when optional parameters are absent.
C5_GroupFieldsMoved ==
  (EngineRan /\ SingleShellDocument /\ gr_required \subseteq DOMAIN TheShellOptions) =>
    /\ "Defaulted" \in Range(engine)
    /\ Len(groups) = 1
    /\ \A par \in (GroupPars \ {"shells"}) \cap DOMAIN TheShellOptions :
         /\ ParKey(par) \in DOMAIN groups[1]
         /\ groups[1][ParKey(par)] = ParFun(par, TheShellOptions[par]).val
         /\ ParKey(par) \notin DOMAIN shells[1]

\* C6: a document with no group and one shell that lacks a required group
\* parameter fails with IncompleteImplicitGroupError listing the missing
\* parameters, and no group is produced.
C6_IncompleteImplicitGroup ==
  (EngineRan /\ SingleShellDocument /\ ~(gr_required \subseteq DOMAIN TheShellOptions)) =>
    /\ Rejected
    /\ err.kind = "IncompleteImplicitGroupError"
    /\ err.keys = gr_required \ DOMAIN TheShellOptions
    /\ groups = <<>>

\* C7: with no group and two or more shells the engine fails with
\* AmbiguousGroupingError and has synthesized no group; with one or more
\* groups declared the engine leaves the list of groups as parsed.
C7_AmbiguousOrNoSynthesis ==
  /\ [](EngineRan /\ ngroups = 0 /\ nshells >= 2 =>
          Rejected /\ err.kind = "AmbiguousGroupingError" /\ groups = <<>>)
  /\ [][pc = "groups_parsed" /\ ngroups >= 1 => groups' = groups]_vars

\* C7 witness: two shells, no group, rejected as ambiguous.
C7_Witness ==
  /\ Rejected
  /\ ngroups = 0
  /\ nshells = 2
  /\ err.kind = "AmbiguousGroupingError"

\* the shell with user_index u carries the group parameter par in its
\* section, and the group section n both lists u and sets par
Redundant(u, par, n) ==
  /\ u \in DOMAIN sh_sections
  /\ par \in DOMAIN cp.shell[sh_sections[u]]
  /\ par \in DOMAIN cp.group[n]
  /\ "shells" \in DOMAIN cp.group[n]
  /\ u \in Range(parse_shells_list(cp.group[n]["shells"]).val)

\* C8: a group parameter that a shell section carries and that a group
\* listing the shell sets as well is removed from the shell, the group keeps
\* its own value, a warning names the parameter and the shell, and parsing
\* succeeds.
C8_GroupValueWins ==
  \A u \in DOMAIN sh_sections, par \in GroupPars \ {"shells"}, n \in DOMAIN cp.group :
    (ExplicitGroups /\ Redundant(u, par, n)) =>
      /\ Final
      /\ \A s \in 1..Len(shells) :
           shells[s]["user_index"] = u => ParKey(par) \notin DOMAIN shells[s]
      /\ \A g \in 1..Len(groups) :
           groups[g]["index"] = get_ind(n).val =>
             groups[g][ParKey(par)] = ParFun(par, cp.group[n][par]).val
      /\ \E w \in 1..Len(warnings) : warnings[w].par = par /\ warnings[w].index = u

\* some shell index is listed twice, in one group or in two
MultiplyReferenced ==
  \E g1, g2 \in 1..Len(groups) :
    \E r1 \in 1..Len(groups[g1]["shells"]), r2 \in 1..Len(groups[g2]["shells"]) :
      /\ <<g1, r1>> # <<g2, r2>>
      /\ groups[g1]["shells"][r1] = groups[g2]["shells"][r2]

\* C9: a document in which every shell is referenced, every reference
\* resolves and some shell is referenced more than once reaches Final.
C9_MultiGroupAccepted ==
  (ExplicitGroups /\ AllReferenced = UserIndices /\ MultiplyReferenced) => Final

\* C10: a document whose shell indices are not 1..N, with every shell
\* referenced and every reference resolving, reaches Final.
C10_NonContiguousAccepted ==
  (/\ ExplicitGroups
   /\ AllReferenced = UserIndices
   /\ UserIndices # 1..Len(shells)) => Final

\* the keys of the draft that parse_shells builds for the shell u
DraftKeys(u) == {"user_index"} \cup {ParKey(par) : par \in DOMAIN cp.shell[sh_sections[u]]}

\* C11: after a failure of the consistency engine the parser holds the
\* shells and groups as the builders left them: no synthesized or partly
\* filled group, no partly stripped shell, and one error.
C11_NoPartialModel ==
  Rejected =>
    /\ err # NoError
    /\ Len(groups) = Cardinality(DOMAIN cp.group)
    /\ \A g \in 1..Len(groups) : "index" \in DOMAIN groups[g]
    /\ \A s \in 1..Len(shells) : DOMAIN shells[s] = DraftKeys(shells[s]["user_index"])

Phases == <<"Built", "Defaulted", "Validated", "Final">>

\* the engine states are passed in order, Rejected only as the last one
PhasesInOrder ==
  \E k \in 1..Len(Phases) :
    \/ engine = SubSeq(Phases, 1, k)
    \/ k < Len(Phases) /\ engine = Append(SubSeq(Phases, 1, k), "Rejected")

\* a failure of the defaulting phase is reported as such
DefaultingFailureFirst ==
  (Rejected /\ "Defaulted" \notin Range(engine)) =>
    err.kind \notin {"UnknownShellReferenceError", "UnreferencedShellError", "ValueError"}

\* C12: the engine states are passed in the order Built, Defaulted,
\* Validated, Final, with Rejected last if at all; a failed defaulting is
\* followed by no later phase; and a document with a dangling reference and
\* an unreferenced shell fails with UnknownShellReferenceError.
C12_EarliestPhaseReported ==
  EngineRan =>
    /\ PhasesInOrder
    /\ Rejected <=> engine[Len(engine)] = "Rejected"
    /\ Final <=> engine[Len(engine)] = "Final"
    /\ DefaultingFailureFirst
    /\ (/\ ExplicitGroups
        /\ ~(AllReferenced \subseteq UserIndices)
        /\ ~(UserIndices \subseteq AllReferenced)) =>
         err.kind = "UnknownShellReferenceError"

\* the part of C12 that the order of the phases makes up
C12_PhaseOrderOnly ==
  EngineRan =>
    /\ PhasesInOrder
    /\ Rejected <=> engine[Len(engine)] = "Rejected"
    /\ Final <=> engine[Len(engine)] = "Final"
    /\ DefaultingFailureFirst
    /\ err.kind # "UnreferencedShellError" \/ AllReferenced \subseteq UserIndices

ShellsAscending ==
  \A i \in 1..(Len(shells) - 1) : shells[i]["user_index"] < shells[i + 1]["user_index"]

GroupsAscending ==
  \A i \in 1..(Len(groups) - 1) : groups[i]["index"] <= groups[i + 1]["index"]

\* C13: once parse_shells has built the shells they are in strictly
\* ascending user_index order, and once parse_groups has built the groups
\* they are in ascending index order, in whatever order the sections were
\* read; the engine does not reorder them.
C13_SortedByIndex ==
  /\ (pc \in {"shells_parsed", "groups_parsed", "done"} \/ EngineRan) => ShellsAscending
  /\ (pc \in {"groups_parsed", "done"} \/ (EngineRan /\ ExplicitGroups)) => GroupsAscending

C13_Witness ==
  /\ pc = "groups_parsed"
  /\ Len(shells) >= 2
  /\ Len(groups) = 2
  /\ groups[1]["index"] < groups[2]["index"]

\* the 'ions' string of the one shell of a document of IonDocs
IonString == cp.shell[ToStr(1)]["ions"]

\* parse_string_ion_list has returned, and its result
IonReturned == Len(shells) = 1

ion_list == shells[1]["ion_list"]

\* parse_string_ion_list has raised the error kind
IonFailed(kind) == pc = "failed" /\ shells = <<>> /\ err.kind = kind

\* the integers that s lists, if s is one-digit integers separated by
\* single blanks
Listed(s) == [i \in 1..((Len(s) + 1) \div 2) |-> DigitVal(s[2 * i - 1])]

\* s is one-digit integers separated by single blanks
IsPlainList(s) ==
  /\ s = <<>> \/ Len(s) % 2 = 1
  /\ \A i \in 1..Len(s) : IF i % 2 = 1 THEN IsDigit(s[i]) ELSE s[i] = " "

Count(l, v) == Cardinality({i \in 1..Len(l) : l[i] = v})

Ascending(l) == \A i \in 1..(Len(l) - 1) : l[i] <= l[i + 1]

\* C14: parse_string_ion_list maps 'a..b' with 1 <= a <= b to a-1, ..., b-1,
\* fails with RangeOrderError when a > b, maps a list of integers to the
\* same integers sorted and decreased by 1, fails with IndexRangeError when
\* an index would be negative, and returns only ascending lists of
\* non-negative indices.
C14_IonList ==
  pc # "start" =>
    /\ \A a, b \in 0..MaxIon :
         IonString = RangeStr(a, b) =>
           IF a > b THEN IonFailed("RangeOrderError")
           ELSE IF a = 0 THEN IonFailed("IndexRangeError")
           ELSE /\ IonReturned
                /\ Len(ion_list) = b - a + 1
                /\ \A i \in 1..Len(ion_list) : ion_list[i] = (a - 1) + (i - 1)
    /\ (IsPlainList(IonString) /\ IonString = Join(Listed(IonString))) =>
         IF \E i \in 1..Len(Listed(IonString)) : Listed(IonString)[i] = 0
         THEN IonFailed("IndexRangeError")
         ELSE /\ IonReturned
              /\ Len(ion_list) = Len(Listed(IonString))
              /\ \A v \in 1..MaxIon :
                   Count(ion_list, v - 1) = Count(Listed(IonString), v)
    /\ IonReturned =>
         /\ Ascending(ion_list)
         /\ \A i \in 1..Len(ion_list) : ion_list[i] >= 0
    /\ IonReturned \/ pc = "failed"

\* the list '3 1 2' has been parsed to 0, 1, 2
C14_Witness ==
  /\ pc = "shells_parsed"
  /\ IonString = Join(<<3, 1, 2>>)
  /\ ion_list = <<0, 1, 2>>

UniqueUserIndices ==
  \A i, j \in 1..Len(shells) : i # j => shells[i]["user_index"] # shells[j]["user_index"]

\* two [Shell] sections of the document give the same index
DuplicateSections ==
  /\ \A n \in DOMAIN cp.shell : get_ind(n).ok
  /\ \E m, n \in DOMAIN cp.shell : m # n /\ get_ind(m).val = get_ind(n).val

\* C15: the user_index values of the shells are distinct in every state,
\* and when two sections give the same index parse_shells fails with
\* DuplicateShellIndexError and no shell has been built.
C15_UniqueShellIndices ==
  /\ UniqueUserIndices
  /\ (pc # "start" /\ DuplicateSections) =>
       /\ pc = "failed"
       /\ err.kind = "DuplicateShellIndexError"
       /\ shells = <<>>

\* the sections 'Shell 1' and 'Shell 01' have been rejected
C15_Witness ==
  /\ {ToStr(1), <<"0", "1">>} \subseteq DOMAIN cp.shell
  /\ pc = "failed"
  /\ err.kind = "DuplicateShellIndexError"

\* C17: once both builders have run, and after the engine has run, nshells
\* is the number of shells and ngroups is the number of groups, the group
\* that the engine appends included.
C17_CountersMatch ==
  (pc \in {"groups_parsed", "done"} \/ EngineRan) =>
    /\ nshells = Len(shells)
    /\ ngroups = Len(groups)

\* the part of C17 that holds: the counters after the builders and after
\* an engine run over declared groups
C17_CountersAfterBuilders ==
  (pc \in {"groups_parsed", "done"} \/ ExplicitGroups) =>
    /\ nshells = Len(shells)
    /\ ngroups = Len(groups)

====
